---- MODULE Spec2Model ----
(***************************************************************************)
(* Model of src/src/orbitalElecDensInit.c (SPARC): Init_electronDensity,   *)
(* elecDensExtrapolation and Init_orbital, run by cooperating MPI          *)
(* processes under the structural (MD / relaxation) driver loop.           *)
(*                                                                         *)
(* A C double is modelled by an exact fraction <<n, d>> in lowest terms,   *)
(* d > 0.  d = 0 holds the IEEE non-finite values (<<1,0>> = +inf,         *)
(* <<-1,0>> = -inf, <<0,0>> = NaN) and <<0,-1>> is the content of memory   *)
(* that was allocated but never assigned; it poisons whatever is computed  *)
(* from it.  Rounding is not modelled.                                     *)
(***************************************************************************)
EXTENDS Integers, Sequences, FiniteSets

(* ----------------------------- bounds --------------------------------- *)
\* processes that are members of dmcomm_phi (process 0 is outside of it)
NMembers == 2
\* electronic ground-state solves the driver performs in a run
MaxCount == 4

(* ------------------------ double arithmetic ---------------------------- *)
Undef == <<0, -1>>
NaN == <<0, 0>>
Zero == <<0, 1>>
One == <<1, 1>>
Two == <<2, 1>>

Abs(x) == IF x < 0 THEN -x ELSE x

Sign(x) == IF x < 0 THEN -1 ELSE IF x > 0 THEN 1 ELSE 0

RECURSIVE GCD(_, _)
GCD(a, b) == IF b = 0 THEN a ELSE GCD(b, a % b)

Norm(num, den) ==
    IF den = 0 THEN <<Sign(num), 0>>
    ELSE LET s == IF den < 0 THEN -1 ELSE 1
             g == GCD(Abs(num), Abs(den))
         IN <<(s * num) \div g, (s * den) \div g>>

IsDef(a) == a # Undef

IsFinite(a) == a[2] > 0

RAdd(a, b) ==
    IF a = Undef \/ b = Undef THEN Undef
    ELSE IF a[2] = 0 /\ b[2] = 0 THEN (IF a = b THEN a ELSE NaN)
    ELSE IF a[2] = 0 THEN a
    ELSE IF b[2] = 0 THEN b
    ELSE LET g == GCD(a[2], b[2])
         IN Norm(a[1] * (b[2] \div g) + b[1] * (a[2] \div g),
                 (a[2] \div g) * b[2])

RNeg(a) == IF a = Undef THEN Undef ELSE <<-a[1], a[2]>>

RSub(a, b) == RAdd(a, RNeg(b))

RMul(a, b) ==
    IF a = Undef \/ b = Undef THEN Undef
    ELSE IF a[2] = 0 \/ b[2] = 0 THEN <<Sign(a[1]) * Sign(b[1]), 0>>
    ELSE LET g == GCD(Abs(a[1]), b[2])
             h == GCD(Abs(b[1]), a[2])
         IN Norm((a[1] \div g) * (b[1] \div h), (a[2] \div h) * (b[2] \div g))

RDiv(a, b) ==
    IF a = Undef \/ b = Undef THEN Undef
    ELSE IF b[2] = 0 THEN (IF a[2] = 0 \/ b = NaN THEN NaN ELSE Zero)
    ELSE RMul(a, Norm(b[2], b[1]))

\* a < b on doubles: false as soon as one side is NaN
RLt(a, b) ==
    /\ a # Undef /\ b # Undef /\ a # NaN /\ b # NaN
    /\ a # b
    /\ IF a[2] = 0 /\ b[2] = 0 THEN a[1] < b[1]
       ELSE IF a[2] = 0 THEN a[1] < 0
       ELSE IF b[2] = 0 THEN b[1] > 0
       ELSE LET g == GCD(a[2], b[2])
            IN a[1] * (b[2] \div g) < b[1] * (a[2] \div g)

\* a == b on doubles: NaN differs from everything
REq(a, b) == a # Undef /\ a # NaN /\ a = b

RECURSIVE RSum(_, _, _)
\* f(lo) + f(lo+1) + ... + f(hi), accumulated from 0.0 in index order
RSum(f, lo, hi) == IF hi < lo THEN Zero ELSE RAdd(RSum(f, lo, hi - 1), f[hi])

(* --------------------- processes and problem sizes --------------------- *)
Procs == 0 .. NMembers
Members == 1 .. NMembers

\* pSPARC->dmcomm_phi != MPI_COMM_NULL
InPhi(p) == p \in Members

\* pSPARC->Nd_d: grid nodes of the local domain
Nd_d == 2
\* pSPARC->n_atom
n_atom == 1

Nodes == 1 .. Nd_d
Coords == 1 .. 3 * n_atom

\* global number of the local node i of member p
GlobalNode(p, i) == (p - 1) * Nd_d + i

(* ------------------- inputs supplied by the caller --------------------- *)
\* pSPARC->electronDens_at: superposition-of-atoms density, 0.1 * global node
electronDens_at(p) == [i \in Nodes |-> Norm(GlobalNode(p, i), 10)]

\* pSPARC->mag_at, collinear: one component per node
mag_at(p) == [i \in Nodes |-> Norm(GlobalNode(p, i), 20)]

\* pSPARC->mag_at, non-collinear: (mx, my, mz) per node, stored component-wise
mag_at_nc(p) ==
    [j \in 1 .. 3 * Nd_d |->
        IF j <= Nd_d THEN Norm(-GlobalNode(p, j), 20) ELSE Zero]

\* pSPARC->PosCharge
PosCharge == Two
\* pSPARC->dV
dV == One
\* pSPARC->Intgwt_phi: integration weight of a node (cyclix)
Intgwt_phi(p) == [i \in Nodes |-> <<i, 1>>]
\* pSPARC->xc_rhotol (1e-14 in the program; a larger floor keeps the
\* fractions inside TLC's 32-bit integers)
xc_rhotol == <<1, 1000>>
\* pSPARC->MD_dt
MD_dt == One
\* pSPARC->Relax_fac
Relax_fac == One
\* pSPARC->mvAtmConstraint: the last coordinate is held fixed
mvAtmConstraint == [c \in Coords |-> IF c = 3 * n_atom THEN Zero ELSE One]

\* the density an electronic solve leaves in electronDens
\*   1: the atomic density itself
\*   2: five times it on odd global nodes, a tenth of it on even ones
SolvedDens(s, p) ==
    [i \in Nodes |->
        IF s = 1 THEN electronDens_at(p)[i]
        ELSE IF GlobalNode(p, i) % 2 = 1
             THEN RMul(<<5, 1>>, electronDens_at(p)[i])
             ELSE RMul(<<1, 10>>, electronDens_at(p)[i])]

\* the magnetization an electronic solve leaves in mag
SolvedMag(s, p) == [i \in Nodes |-> Norm(s * GlobalNode(p, i), 20)]

\* ionic velocity / search direction: unit vector along coordinate v
Direction(v) == [c \in Coords |-> IF c = v THEN One ELSE Zero]

VARIABLES
    spin_typ, CyclixFlag, MDFlag, RelaxFlag,
    elecgs_Count, StressCount, MDCount,
    electronDens, mag,
    delectronDens, delectronDens_0dt, delectronDens_1dt, delectronDens_2dt,
    atom_pos, ion_vel, d,
    atom_pos_nm, atom_pos_0dt, atom_pos_1dt, atom_pos_2dt,
    alpha, beta,
    phase, pc, int_rho, sendbuf, joined, nreduce,
    isGammaPoint, FixRandSeed, part, Xorb, Yorb, Xorb_kpt, Yorb_kpt,
    nalloc, opc, step

densVars ==
    <<spin_typ, CyclixFlag, MDFlag, RelaxFlag,
      elecgs_Count, StressCount, MDCount,
      electronDens, mag,
      delectronDens, delectronDens_0dt, delectronDens_1dt, delectronDens_2dt,
      atom_pos, ion_vel, d,
      atom_pos_nm, atom_pos_0dt, atom_pos_1dt, atom_pos_2dt,
      alpha, beta,
      phase, pc, int_rho, sendbuf, joined, nreduce>>

orbVars ==
    <<isGammaPoint, FixRandSeed, part, Xorb, Yorb, Xorb_kpt, Yorb_kpt,
      nalloc, opc, step>>

vars == <<densVars, orbVars>>

\* elecgs_Count - StressCount
NetCount == elecgs_Count - StressCount

Structural == MDFlag = 1 \/ RelaxFlag = 1

UndefVec(S) == [j \in S |-> Undef]

\* the density side of the context right after construction
InitContext ==
    /\ RelaxFlag = 1 - MDFlag
    /\ elecgs_Count = 0
    /\ StressCount = 0
    /\ MDCount = 0
    /\ electronDens = [p \in Procs |-> UndefVec(1 .. 3 * Nd_d)]
    /\ mag = [p \in Procs |-> UndefVec(1 .. 4 * Nd_d)]
    /\ delectronDens = [p \in Procs |-> UndefVec(Nodes)]
    /\ delectronDens_0dt = [p \in Procs |-> UndefVec(Nodes)]
    /\ delectronDens_1dt = [p \in Procs |-> UndefVec(Nodes)]
    /\ delectronDens_2dt = [p \in Procs |-> UndefVec(Nodes)]
    /\ atom_pos = [c \in Coords |-> <<c, 1>>]
    /\ ion_vel = [c \in Coords |-> Zero]
    /\ d = [c \in Coords |-> Zero]
    /\ atom_pos_nm = [p \in Procs |-> UndefVec(Coords)]
    /\ atom_pos_0dt = [p \in Procs |-> UndefVec(Coords)]
    /\ atom_pos_1dt = [p \in Procs |-> UndefVec(Coords)]
    /\ atom_pos_2dt = [p \in Procs |-> UndefVec(Coords)]
    /\ alpha = [p \in Procs |-> Undef]
    /\ beta = [p \in Procs |-> Undef]
    /\ pc = [p \in Procs |-> "call"]
    /\ int_rho = [p \in Procs |-> Undef]
    /\ sendbuf = [p \in Procs |-> Undef]
    /\ joined = {}
    /\ nreduce = [p \in Procs |-> 0]

\* the run of the density routines: the orbital side stays unallocated
InitDens ==
    /\ spin_typ \in {0, 1, 2}
    /\ CyclixFlag \in {0, 1}
    /\ MDFlag \in {0, 1}
    /\ InitContext
    /\ phase = "init"
    /\ isGammaPoint = 1
    /\ FixRandSeed = 1
    /\ part = <<>>
    /\ Xorb = <<>>
    /\ Yorb = <<>>
    /\ Xorb_kpt = <<>>
    /\ Yorb_kpt = <<>>
    /\ nalloc = <<>>
    /\ opc = <<>>
    /\ step = 1

(* ------------------------ Init_electronDensity ------------------------- *)
\* the three channels of electronDens laid out consecutively
Channels(tot, up, down) ==
    [j \in 1 .. 3 * Nd_d |->
        IF j <= Nd_d THEN tot[j]
        ELSE IF j <= 2 * Nd_d THEN up[j - Nd_d] ELSE down[j - 2 * Nd_d]]

TotalChannel(p) == [i \in Nodes |-> electronDens[p][i]]

\* Calculate_diagonal_Density: rho_up = (rho + m) / 2, rho_dn = (rho - m) / 2
Calculate_diagonal_Density(m, rho) ==
    Channels(rho,
             [i \in Nodes |-> RDiv(RAdd(rho[i], m[i]), Two)],
             [i \in Nodes |-> RDiv(RSub(rho[i], m[i]), Two)])

ISqrt(n) == CHOOSE k \in 0 .. n : k * k = n

RSqrt(a) == IF IsDef(a) /\ IsFinite(a) THEN <<ISqrt(a[1]), ISqrt(a[2])>> ELSE a

\* Calculate_Magnorm: the norm of (mx, my, mz), node by node
Calculate_Magnorm(m) ==
    [i \in Nodes |->
        RSqrt(RAdd(RAdd(RMul(m[Nd_d + i], m[Nd_d + i]),
                        RMul(m[2 * Nd_d + i], m[2 * Nd_d + i])),
                   RMul(m[3 * Nd_d + i], m[3 * Nd_d + i])))]

\* the first-step branch: electronDens and mag of process p afterwards
FirstDensity(p) ==
    IF spin_typ = 0
    THEN [j \in 1 .. 3 * Nd_d |->
             IF j <= Nd_d THEN electronDens_at(p)[j] ELSE electronDens[p][j]]
    ELSE IF spin_typ = 1
    THEN Calculate_diagonal_Density(mag_at(p), electronDens_at(p))
    ELSE Calculate_diagonal_Density(
             Calculate_Magnorm([j \in 1 .. 4 * Nd_d |->
                 IF j <= Nd_d THEN mag[p][j] ELSE mag_at_nc(p)[j - Nd_d]]),
             electronDens_at(p))

FirstMag(p) ==
    IF spin_typ = 1
    THEN [j \in 1 .. 4 * Nd_d |-> IF j <= Nd_d THEN mag_at(p)[j] ELSE mag[p][j]]
    ELSE IF spin_typ = 2
    THEN LET comps == [j \in 1 .. 4 * Nd_d |->
                          IF j <= Nd_d THEN mag[p][j] ELSE mag_at_nc(p)[j - Nd_d]]
             nrm == Calculate_Magnorm(comps)
         IN [j \in 1 .. 4 * Nd_d |-> IF j <= Nd_d THEN nrm[j] ELSE comps[j]]
    ELSE mag[p]

\* whether this call takes the charge-extrapolation branch
UsesExtrapolation == NetCount >= 3 /\ Structural

\* the clamp left out
ClampNegative_Missing(x) == x

\* a negative extrapolated value is replaced by xc_rhotol
ClampNegative(x) == IF RLt(x, Zero) THEN xc_rhotol ELSE x

\* the total channel as staged before the scaling
StagedDens(p) ==
    IF UsesExtrapolation
    THEN [i \in Nodes |->
             ClampNegative(RAdd(electronDens_at(p)[i], delectronDens[p][i]))]
    ELSE TotalChannel(p)

\* the local part of the integral of the density
LocalIntRho(p, rho) ==
    IF CyclixFlag # 0
    THEN RSum([i \in Nodes |-> RMul(rho[i], Intgwt_phi(p)[i])], 1, Nd_d)
    ELSE RMul(RSum(rho, 1, Nd_d), dV)

\* the scaling branch entered only together with the extrapolation
ReachesAllreduce_OnlyExtrapolated == NetCount >= 3

\* whether a member's call takes the branch that ends in MPI_Allreduce
ReachesAllreduce == NetCount # 0

\* the scale factor taken from the local part of the integral
ScaledDens_LocalIntegral(p, total) ==
    LET vscal == RDiv(PosCharge, sendbuf[p])
        rho == [i \in Nodes |-> RMul(electronDens[p][i], vscal)]
    IN IF spin_typ # 0
       THEN Channels(rho,
                [i \in Nodes |-> RDiv(RAdd(rho[i], mag[p][i]), Two)],
                [i \in Nodes |-> RDiv(RSub(rho[i], mag[p][i]), Two)])
       ELSE [j \in 1 .. 3 * Nd_d |->
                IF j <= Nd_d THEN rho[j] ELSE electronDens[p][j]]

\* the magnetization added to both channels
ScaledDens_SameSign(p, total) ==
    LET vscal == RDiv(PosCharge, total)
        rho == [i \in Nodes |-> RMul(electronDens[p][i], vscal)]
    IN IF spin_typ # 0
       THEN Channels(rho,
                [i \in Nodes |-> RDiv(RAdd(rho[i], mag[p][i]), Two)],
                [i \in Nodes |-> RDiv(RAdd(rho[i], mag[p][i]), Two)])
       ELSE [j \in 1 .. 3 * Nd_d |->
                IF j <= Nd_d THEN rho[j] ELSE electronDens[p][j]]

\* the density after the scaling and, when spin-polarized, the channel split
ScaledDens(p, total) ==
    LET vscal == RDiv(PosCharge, total)
        rho == [i \in Nodes |-> RMul(electronDens[p][i], vscal)]
    IN IF spin_typ # 0
       THEN Channels(rho,
                [i \in Nodes |-> RDiv(RAdd(rho[i], mag[p][i]), Two)],
                [i \in Nodes |-> RDiv(RSub(rho[i], mag[p][i]), Two)])
       ELSE [j \in 1 .. 3 * Nd_d |->
                IF j <= Nd_d THEN rho[j] ELSE electronDens[p][j]]

\* Init_electronDensity up to its return or to the call of MPI_Allreduce
Init_electronDensity(p) ==
    /\ phase = "init"
    /\ pc[p] = "call"
    /\ IF ~InPhi(p)
       THEN /\ pc' = [pc EXCEPT ![p] = "ret"]
            /\ UNCHANGED <<electronDens, mag, atom_pos_0dt, int_rho, sendbuf,
                           joined, nreduce>>
       ELSE IF ~ReachesAllreduce
       THEN /\ electronDens' = [electronDens EXCEPT ![p] = FirstDensity(p)]
            /\ mag' = [mag EXCEPT ![p] = FirstMag(p)]
            /\ atom_pos_0dt' = IF Structural
                               THEN [atom_pos_0dt EXCEPT ![p] = atom_pos]
                               ELSE atom_pos_0dt
            /\ pc' = [pc EXCEPT ![p] = "ret"]
            /\ UNCHANGED <<int_rho, sendbuf, joined, nreduce>>
       ELSE \E rho \in {StagedDens(p)} :
            \E loc \in {LocalIntRho(p, rho)} :
               /\ electronDens' = [electronDens EXCEPT ![p] =
                      [j \in 1 .. 3 * Nd_d |->
                          IF j <= Nd_d THEN rho[j] ELSE electronDens[p][j]]]
               /\ int_rho' = [int_rho EXCEPT ![p] = loc]
               /\ sendbuf' = [sendbuf EXCEPT ![p] = loc]
               /\ joined' = joined \cup {p}
               /\ nreduce' = [nreduce EXCEPT ![p] = @ + 1]
               /\ pc' = [pc EXCEPT ![p] = "allreduce"]
               /\ UNCHANGED <<mag, atom_pos_0dt>>
    /\ UNCHANGED <<spin_typ, CyclixFlag, MDFlag, RelaxFlag, elecgs_Count,
                   StressCount, MDCount, delectronDens, delectronDens_0dt,
                   delectronDens_1dt, delectronDens_2dt, atom_pos, ion_vel, d,
                   atom_pos_nm, atom_pos_1dt, atom_pos_2dt, alpha, beta, phase,
                   orbVars>>

\* MPI_Allreduce(MPI_IN_PLACE, &int_rho, 1, MPI_DOUBLE, MPI_SUM, dmcomm_phi):
\* completes once every member of the group has joined it
MPI_Allreduce_Sum == RSum([m \in Members |-> sendbuf[m]], 1, NMembers)

\* Init_electronDensity from the return of MPI_Allreduce to its own return
Init_electronDensity_Scale(p) ==
    /\ phase = "init"
    /\ pc[p] = "allreduce"
    /\ joined = Members
    /\ \E total \in {MPI_Allreduce_Sum} :
        /\ int_rho' = [int_rho EXCEPT ![p] = total]
        /\ electronDens' = [electronDens EXCEPT ![p] = ScaledDens(p, total)]
    /\ pc' = [pc EXCEPT ![p] = "ret"]
    /\ UNCHANGED <<spin_typ, CyclixFlag, MDFlag, RelaxFlag, elecgs_Count,
                   StressCount, MDCount, mag, delectronDens, delectronDens_0dt,
                   delectronDens_1dt, delectronDens_2dt, atom_pos, ion_vel, d,
                   atom_pos_nm, atom_pos_0dt, atom_pos_1dt, atom_pos_2dt,
                   alpha, beta, phase, sendbuf, joined, nreduce, orbVars>>

(* ------------------------ elecDensExtrapolation ------------------------ *)
\* age-1 overwritten before it is moved to age-2
ShiftDev_WrongOrder(p) ==
    [dev2 |-> delectronDens_0dt[p],
     dev1 |-> delectronDens_0dt[p],
     dev0 |-> [nd \in Nodes |->
                  RSub(electronDens[p][nd], electronDens_at(p)[nd])]]

\* the ring shift of the deviation history
ShiftDev(p) ==
    [dev2 |-> delectronDens_1dt[p],
     dev1 |-> delectronDens_0dt[p],
     dev0 |-> [nd \in Nodes |->
                  RSub(electronDens[p][nd], electronDens_at(p)[nd])]]

\* whether this call copies atom_pos into atom_pos_nm instead of advancing it
FirstEligible ==
    IF MDFlag = 1 THEN MDCount = 1 ELSE RelaxFlag = 1 /\ NetCount = 1

\* the predicted next positions
PredictPos(p) ==
    IF MDFlag = 1
    THEN [c \in Coords |->
             IF MDCount = 1 THEN atom_pos[c]
             ELSE RAdd(atom_pos_nm[p][c], RMul(MD_dt, ion_vel[c]))]
    ELSE IF RelaxFlag = 1
    THEN [c \in Coords |->
             IF NetCount = 1 THEN atom_pos[c]
             ELSE RAdd(atom_pos_nm[p][c],
                       RMul(RMul(Relax_fac, d[c]), mvAtmConstraint[c]))]
    ELSE atom_pos_nm[p]

\* the fit started one solve early
FitsHistory_TooEarly == NetCount >= 2

\* whether this call builds and solves the 2x2 fit
FitsHistory == NetCount >= 3

\* FtF (column-major, 4 entries) and Ftf (2 entries) from the histories
BuildFit(p0, p1, p2, nm) ==
    LET t1 == [c \in Coords |-> RSub(p0[c], p1[c])]
        t2 == [c \in Coords |-> RSub(p1[c], p2[c])]
        t3 == [c \in Coords |-> RSub(nm[c], p0[c])]
        f11 == RSum([c \in Coords |-> RMul(t1[c], t1[c])], 1, 3 * n_atom)
        f12 == RSum([c \in Coords |-> RMul(t1[c], t2[c])], 1, 3 * n_atom)
        f22 == RSum([c \in Coords |-> RMul(t2[c], t2[c])], 1, 3 * n_atom)
        g1 == RSum([c \in Coords |-> RMul(t1[c], t3[c])], 1, 3 * n_atom)
        g2 == RSum([c \in Coords |-> RMul(t2[c], t3[c])], 1, 3 * n_atom)
    IN [FtF |-> <<f11, f12, f12, f22>>, Ftf |-> <<g1, g2>>]

\* LAPACKE_dgelsd on a 2x2 system: the minimum-norm least-squares solution.
\* Full rank: the inverse; rank one: A^T b / |A|_F^2; rank zero: 0.
LAPACKE_dgelsd(A, b) ==
    IF \E k \in 1 .. 4 : ~IsDef(A[k]) THEN <<Undef, Undef>>
    ELSE IF \E k \in 1 .. 2 : ~IsDef(b[k]) THEN <<Undef, Undef>>
    ELSE
    LET det == RSub(RMul(A[1], A[4]), RMul(A[3], A[2]))
        fro == RAdd(RAdd(RMul(A[1], A[1]), RMul(A[2], A[2])),
                    RAdd(RMul(A[3], A[3]), RMul(A[4], A[4])))
    IN IF det # Zero
       THEN <<RDiv(RSub(RMul(A[4], b[1]), RMul(A[3], b[2])), det),
              RDiv(RSub(RMul(A[1], b[2]), RMul(A[2], b[1])), det)>>
       ELSE IF fro # Zero
       THEN <<RDiv(RAdd(RMul(A[1], b[1]), RMul(A[2], b[2])), fro),
              RDiv(RAdd(RMul(A[3], b[1]), RMul(A[4], b[2])), fro)>>
       ELSE <<Zero, Zero>>

\* the last term added instead of subtracted
Extrapolate_WrongSign(a, b, dev0, dev1, dev2) ==
    RAdd(RAdd(RMul(RAdd(One, a), dev0), RMul(RSub(b, a), dev1)),
         RMul(b, dev2))

\* (1 + alpha) * dev0 + (beta - alpha) * dev1 - beta * dev2
Extrapolate(a, b, dev0, dev1, dev2) ==
    RSub(RAdd(RMul(RAdd(One, a), dev0), RMul(RSub(b, a), dev1)),
         RMul(b, dev2))

elecDensExtrapolation(p) ==
    /\ phase = "extrap"
    /\ pc[p] = "call"
    /\ pc' = [pc EXCEPT ![p] = "ret"]
    /\ IF ~InPhi(p)
       THEN UNCHANGED <<delectronDens, delectronDens_0dt, delectronDens_1dt,
                        delectronDens_2dt, atom_pos_nm, atom_pos_0dt,
                        atom_pos_1dt, atom_pos_2dt, alpha, beta>>
       ELSE \E dev \in {ShiftDev(p)}, nm \in {PredictPos(p)} :
            \E fit \in {BuildFit(atom_pos_0dt[p], atom_pos_1dt[p],
                                 atom_pos_2dt[p], nm)} :
            \E x \in {IF FitsHistory THEN LAPACKE_dgelsd(fit.FtF, fit.Ftf)
                                     ELSE <<alpha[p], beta[p]>>} :
               /\ delectronDens_2dt' = [delectronDens_2dt EXCEPT ![p] = dev.dev2]
               /\ delectronDens_1dt' = [delectronDens_1dt EXCEPT ![p] = dev.dev1]
               /\ delectronDens_0dt' = [delectronDens_0dt EXCEPT ![p] = dev.dev0]
               /\ atom_pos_nm' = [atom_pos_nm EXCEPT ![p] = nm]
               /\ IF FitsHistory
                  THEN /\ alpha' = [alpha EXCEPT ![p] = x[1]]
                       /\ beta' = [beta EXCEPT ![p] = x[2]]
                       /\ delectronDens' = [delectronDens EXCEPT ![p] =
                              [nd \in Nodes |->
                                  Extrapolate(x[1], x[2], dev.dev0[nd],
                                              dev.dev1[nd], dev.dev2[nd])]]
                  ELSE UNCHANGED <<alpha, beta, delectronDens>>
               /\ atom_pos_2dt' = [atom_pos_2dt EXCEPT ![p] = atom_pos_1dt[p]]
               /\ atom_pos_1dt' = [atom_pos_1dt EXCEPT ![p] = atom_pos_0dt[p]]
               /\ atom_pos_0dt' = [atom_pos_0dt EXCEPT ![p] = nm]
    /\ UNCHANGED <<spin_typ, CyclixFlag, MDFlag, RelaxFlag, elecgs_Count,
                   StressCount, MDCount, electronDens, mag, atom_pos, ion_vel,
                   d, phase, int_rho, sendbuf, joined, nreduce, orbVars>>

(* ----------------------- the structural driver ------------------------- *)
\* what one electronic ground-state solve may do: the density it converges
\* to, the direction the ions move in next, and whether it is a stress solve
SolveChoices ==
    IF MDFlag = 1
    THEN {[rho |-> s, dir |-> v, stress |-> 0] : s \in 1 .. 2, v \in 1 .. 2}
    ELSE {[rho |-> s, dir |-> 1 + (elecgs_Count % 2), stress |-> st] :
              s \in 1 .. 2, st \in 0 .. 1}

\* the electronic ground-state solve and the ionic update that follows it
Solve ==
    /\ phase = "init"
    /\ \A p \in Procs : pc[p] = "ret"
    /\ elecgs_Count < MaxCount
    /\ \E ch \in SolveChoices :
        /\ electronDens' = [p \in Procs |->
               IF InPhi(p)
               THEN [j \in 1 .. 3 * Nd_d |->
                        IF j <= Nd_d THEN SolvedDens(ch.rho, p)[j]
                        ELSE electronDens[p][j]]
               ELSE electronDens[p]]
        /\ mag' = [p \in Procs |->
               IF InPhi(p) /\ spin_typ # 0
               THEN [j \in 1 .. 4 * Nd_d |->
                        IF j <= Nd_d THEN SolvedMag(ch.rho, p)[j] ELSE mag[p][j]]
               ELSE mag[p]]
        /\ elecgs_Count' = elecgs_Count + 1
        /\ StressCount' = StressCount + ch.stress
        /\ ion_vel' = Direction(ch.dir)
        /\ d' = Direction(ch.dir)
        /\ atom_pos' = [c \in Coords |-> RAdd(atom_pos[c], Direction(ch.dir)[c])]
    /\ MDCount' = MDCount + 1
    /\ phase' = "extrap"
    /\ pc' = [p \in Procs |-> "call"]
    /\ UNCHANGED <<spin_typ, CyclixFlag, MDFlag, RelaxFlag, delectronDens,
                   delectronDens_0dt, delectronDens_1dt, delectronDens_2dt,
                   atom_pos_nm, atom_pos_0dt, atom_pos_1dt, atom_pos_2dt,
                   alpha, beta, int_rho, sendbuf, joined, nreduce, orbVars>>

\* the next structural step: every process calls Init_electronDensity again
NextStep ==
    /\ phase = "extrap"
    /\ \A p \in Procs : pc[p] = "ret"
    /\ phase' = "init"
    /\ pc' = [p \in Procs |-> "call"]
    /\ sendbuf' = [p \in Procs |-> Undef]
    /\ joined' = {}
    /\ nreduce' = [p \in Procs |-> 0]
    /\ UNCHANGED <<spin_typ, CyclixFlag, MDFlag, RelaxFlag, elecgs_Count,
                   StressCount, MDCount, electronDens, mag, delectronDens,
                   delectronDens_0dt, delectronDens_1dt, delectronDens_2dt,
                   atom_pos, ion_vel, d, atom_pos_nm, atom_pos_0dt,
                   atom_pos_1dt, atom_pos_2dt, alpha, beta, int_rho, orbVars>>

NextDens ==
    \/ \E p \in Procs : Init_electronDensity(p)
    \/ \E p \in Procs : Init_electronDensity_Scale(p)
    \/ \E p \in Procs : elecDensExtrapolation(p)
    \/ Solve
    \/ NextStep

SpecDens == InitDens /\ [][NextDens]_vars

(* ----------------------------- Init_orbital ---------------------------- *)
\* pSPARC->Nstates: global number of bands
Nstates == 2
\* pSPARC->Nkpts_sym: global number of k-points when not at the gamma point
Nkpts_sym == 2
\* pSPARC->Nspinor
Nspinor == 2
\* pSPARC->Nx (the grid is decomposed along x; Ny = Nz = 1)
Nx == 2

\* pSPARC->Nd = Nx * Ny * Nz
Nd == Nx * 1 * 1

Nkpts == IF isGammaPoint = 1 THEN 1 ELSE Nkpts_sym

Runs == 1 .. 2

\* a process outside dmcomm
NoDmcomm == <<0, 0, 0, 0, 0>>

\* pSPARC->dmcomm != MPI_COMM_NULL
InDmcomm(q) == q # NoDmcomm

\* ways of partitioning the problem: nothing split, or one of the band,
\* k-point, spinor and domain axes split over two process groups
Partitions(gamma) ==
    {[npband |-> IF a = 1 THEN 2 ELSE 1, npkpt |-> IF a = 2 THEN 2 ELSE 1,
      npspin |-> IF a = 3 THEN 2 ELSE 1, npdom |-> IF a = 4 THEN 2 ELSE 1] :
        a \in IF gamma = 1 THEN {0, 1, 3, 4} ELSE 0 .. 4}

\* the members of dmcomm of run r: <<r, band group, kpt group, spin group, domain>>
OrbProcsOf(r) ==
    {<<r, b, k, sp, x>> : b \in 0 .. part[r].npband - 1,
                          k \in 0 .. part[r].npkpt - 1,
                          sp \in 0 .. part[r].npspin - 1,
                          x \in 0 .. part[r].npdom - 1}

OrbProcs == OrbProcsOf(1) \cup OrbProcsOf(2) \cup {NoDmcomm}

\* block distribution of N items over np groups
BlockSize(N, np) == (N + np - 1) \div np

BlockStart(N, np, idx) == idx * BlockSize(N, np)

BlockCount(N, np, idx) ==
    LET left == N - BlockStart(N, np, idx)
    IN IF left <= 0 THEN 0
       ELSE IF left < BlockSize(N, np) THEN left ELSE BlockSize(N, np)

Nband_bandcomm(q) == BlockCount(Nstates, part[q[1]].npband, q[2])
band_start_indx(q) == BlockStart(Nstates, part[q[1]].npband, q[2])
Nkpts_kptcomm(q) == BlockCount(Nkpts, part[q[1]].npkpt, q[3])
kpt_start_indx(q) == BlockStart(Nkpts, part[q[1]].npkpt, q[3])
Nspinor_spincomm(q) == BlockCount(Nspinor, part[q[1]].npspin, q[4])
spinor_start_indx(q) == BlockStart(Nspinor, part[q[1]].npspin, q[4])
\* pSPARC->Nd_d_dmcomm and the first global node of DMVertices_dmcomm
Nd_d_dmcomm(q) == BlockCount(Nx, part[q[1]].npdom, q[5])
DMVertices_dmcomm(q) == BlockStart(Nx, part[q[1]].npdom, q[5])

DMndsp(q) == Nd_d_dmcomm(q) * Nspinor_spincomm(q)
size_k(q) == DMndsp(q) * Nband_bandcomm(q)
len_tot(q) == size_k(q) * Nkpts_kptcomm(q)

\* one step of the generator behind srand / rand
RandNext(x) == (x * 75 + 74) % 32749

\* a draw mapped into [rand_min, rand_max) = [-0.5, 0.5)
RandValue(x) == Norm(2 * x - 32749, 2 * 32749)

\* SeededRandVec / SeededRandVec_complex: the value at global node g is
\* the first draw of the generator seeded with seed_offset + g
SeededRandVec(seed_offset, g) == RandValue(RandNext(seed_offset + g + 1))

RECURSIVE RandJump(_)
\* n steps of the generator taken at once: x |-> (h[1] * x + h[2]) % 32749
RandJump(n) ==
    IF n = 0 THEN <<1, 0>>
    ELSE IF n % 2 = 1
    THEN LET h == RandJump(n - 1)
         IN <<(h[1] * 75) % 32749, (h[2] * 75 + 74) % 32749>>
    ELSE LET h == RandJump(n \div 2)
         IN <<(h[1] * h[1]) % 32749, (h[1] * h[2] + h[2]) % 32749>>

\* the j-th draw (j = 0, 1, ...) of the generator seeded with seed
RandSeq(seed, j) ==
    LET h == RandJump(j + 1) IN (h[1] * seed + h[2]) % 32749

\* rank of the process in the communicator handed to SetRandMat
RankInSpincomm(q) ==
    (q[3] * part[q[1]].npband + q[2]) * part[q[1]].npdom + q[5]

\* SetRandMat / SetRandMat_complex: entry j of the matrix is the j-th draw
\* of the generator seeded from the rank of the process
SetRandMat(q, j) == RandValue(RandSeq(RankInSpincomm(q) + 1, j))

\* the local band index used in place of the global one
shift_g_LocalBand(q, k, n, spinor) ==
    LET Ndsp == Nd * Nspinor
        size_kg == Ndsp * Nstates
        kg == kpt_start_indx(q) + k
        spinorg == spinor_start_indx(q) + spinor
    IN IF isGammaPoint = 1
       THEN n * Ndsp + spinorg * Nd
       ELSE kg * size_kg + n * Ndsp + spinorg * Nd

\* int shift_g: the global offset handed to the seeded generator
shift_g(q, k, n, spinor) ==
    LET Ndsp == Nd * Nspinor
        size_kg == Ndsp * Nstates
        kg == kpt_start_indx(q) + k
        ng == band_start_indx(q) + n
        spinorg == spinor_start_indx(q) + spinor
    IN IF isGammaPoint = 1
       THEN ng * Ndsp + spinorg * Nd
       ELSE kg * size_kg + ng * Ndsp + spinorg * Nd

\* int shift: where the coefficients of (k, n, spinor) start in the array
shift(q, k, n, spinor) ==
    k * size_k(q) + n * DMndsp(q) + spinor * Nd_d_dmcomm(q)

\* the orbital array of process q after the random fill
RandomOrbitals(q) ==
    [j \in 0 .. len_tot(q) - 1 |->
        IF FixRandSeed = 1
        THEN LET k == j \div size_k(q)
                 n == (j % size_k(q)) \div DMndsp(q)
                 spinor == (j % DMndsp(q)) \div Nd_d_dmcomm(q)
                 l == j % Nd_d_dmcomm(q)
             IN SeededRandVec(shift_g(q, k, n, spinor),
                              DMVertices_dmcomm(q) + l)
        ELSE SetRandMat(q, j)]

\* the first step recognised by the net count, as the density routine does
FirstOrbitalStep_NetCount == elecgs_Count - StressCount = 0

\* whether this call allocates and fills the orbitals
FirstOrbitalStep == elecgs_Count = 0

Init_orbital(q) ==
    /\ phase = "orbital"
    /\ opc[q] = "call"
    /\ opc' = [opc EXCEPT ![q] = "ret"]
    /\ IF InDmcomm(q) /\ FirstOrbitalStep
       THEN IF isGammaPoint = 1
            THEN /\ Xorb' = [Xorb EXCEPT ![q] = RandomOrbitals(q)]
                 /\ Yorb' = [Yorb EXCEPT ![q] =
                                [j \in 0 .. size_k(q) - 1 |-> Undef]]
                 /\ nalloc' = [nalloc EXCEPT ![q] = @ + 1]
                 /\ UNCHANGED <<Xorb_kpt, Yorb_kpt>>
            ELSE /\ Xorb_kpt' = [Xorb_kpt EXCEPT ![q] = RandomOrbitals(q)]
                 /\ Yorb_kpt' = [Yorb_kpt EXCEPT ![q] =
                                    [j \in 0 .. size_k(q) - 1 |-> Undef]]
                 /\ nalloc' = [nalloc EXCEPT ![q] = @ + 1]
                 /\ UNCHANGED <<Xorb, Yorb>>
       ELSE UNCHANGED <<Xorb, Yorb, Xorb_kpt, Yorb_kpt, nalloc>>
    /\ UNCHANGED <<densVars, isGammaPoint, FixRandSeed, part, step>>

\* the electronic solve between two structural steps, as far as the
\* orbital routine sees it: the counters move
SolveOrbital ==
    /\ phase = "orbital"
    /\ \A q \in OrbProcs : opc[q] = "ret"
    /\ elecgs_Count < MaxCount
    /\ \E st \in 0 .. 1 :
        /\ elecgs_Count' = elecgs_Count + 1
        /\ StressCount' = StressCount + st
    /\ opc' = [q \in OrbProcs |-> "call"]
    /\ step' = step + 1
    /\ UNCHANGED <<spin_typ, CyclixFlag, MDFlag, RelaxFlag, MDCount,
                   electronDens, mag, delectronDens, delectronDens_0dt,
                   delectronDens_1dt, delectronDens_2dt, atom_pos, ion_vel, d,
                   atom_pos_nm, atom_pos_0dt, atom_pos_1dt, atom_pos_2dt,
                   alpha, beta, phase, pc, int_rho, sendbuf, joined, nreduce,
                   isGammaPoint, FixRandSeed, part, Xorb, Yorb, Xorb_kpt,
                   Yorb_kpt, nalloc>>

\* the run of the orbital routine: the same global problem set up under two
\* partitionings, run side by side
InitOrb ==
    /\ spin_typ = 0
    /\ CyclixFlag = 0
    /\ MDFlag = 1
    /\ InitContext
    /\ phase = "orbital"
    /\ isGammaPoint \in {0, 1}
    /\ FixRandSeed \in {0, 1}
    /\ part \in [Runs -> Partitions(isGammaPoint)]
    /\ Xorb = [q \in OrbProcs |-> <<>>]
    /\ Yorb = [q \in OrbProcs |-> <<>>]
    /\ Xorb_kpt = [q \in OrbProcs |-> <<>>]
    /\ Yorb_kpt = [q \in OrbProcs |-> <<>>]
    /\ nalloc = [q \in OrbProcs |-> 0]
    /\ opc = [q \in OrbProcs |-> "call"]
    /\ step = 1

NextOrb ==
    \/ \E q \in OrbProcs : Init_orbital(q)
    \/ SolveOrbital

SpecOrb == InitOrb /\ [][NextOrb]_vars

(* ======================= properties of the density ===================== *)
\* a >= b on doubles
RGe(a, b) == IsDef(a) /\ IsDef(b) /\ a # NaN /\ b # NaN /\ ~RLt(a, b)

AllReturned == \A p \in Procs : pc[p] = "ret"

\* the integral of the total channel over the whole group, node by node
VolumeIntegral ==
    RSum([m \in Members |->
             RSum([i \in Nodes |->
                      RMul(electronDens[m][i],
                           IF CyclixFlag # 0 THEN Intgwt_phi(m)[i] ELSE dV)],
                  1, Nd_d)],
         1, NMembers)

\* C1: once every member has returned from a call with
\* elecgs_Count - StressCount != 0 whose reduced integral was not zero, the
\* integral of the total channel over the group (dV, or Intgwt_phi per node
\* when CyclixFlag is set) equals PosCharge.
C1_IntegralIsPosCharge ==
    (phase = "init" /\ AllReturned /\ NetCount # 0
        /\ \A m \in Members : int_rho[m] # Zero)
    => REq(VolumeIntegral, PosCharge)

\* the example of the claim: [0.1, 0.2, 0.3, 0.4] becomes [0.2, 0.4, 0.6, 0.8]
C1_Witness ==
    /\ phase = "init" /\ AllReturned /\ NetCount # 0 /\ CyclixFlag = 0
    /\ \A m \in Members : int_rho[m] = One
    /\ \A m \in Members : \A i \in Nodes :
          electronDens[m][i] = Norm(2 * GlobalNode(m, i), 10)

ExtrapolationStep(p) ==
    phase = "extrap" /\ pc[p] = "call" /\ pc'[p] = "ret"

\* C2: a call of elecDensExtrapolation by a member leaves delectronDens alone
\* when elecgs_Count - StressCount < 3 (so it is still unassigned while the
\* count is below 3); otherwise alpha, beta are the solver's answer for the
\* FtF, Ftf of the three position histories and, node by node,
\* delectronDens = (1+alpha)*dev0 + (beta-alpha)*dev1 - beta*dev2.
C2_ExtrapolatedDeviation ==
    [][\A p \in Members :
        /\ (NetCount' < 3 => delectronDens'[p] = UndefVec(Nodes))
        /\ ExtrapolationStep(p) =>
            IF NetCount < 3
            THEN delectronDens'[p] = delectronDens[p]
            ELSE \E nm \in {atom_pos_nm'[p]}, dev0 \in {delectronDens_0dt'[p]},
                    dev1 \in {delectronDens_1dt'[p]},
                    dev2 \in {delectronDens_2dt'[p]} :
                 \E fit \in {BuildFit(atom_pos_0dt[p], atom_pos_1dt[p],
                                      atom_pos_2dt[p], nm)} :
                 \E x \in {LAPACKE_dgelsd(fit.FtF, fit.Ftf)} :
                     /\ alpha'[p] = x[1]
                     /\ beta'[p] = x[2]
                     /\ \A nd \in Nodes :
                          delectronDens'[p][nd] =
                              RSub(RAdd(RMul(RAdd(One, x[1]), dev0[nd]),
                                        RMul(RSub(x[2], x[1]), dev1[nd])),
                                   RMul(x[2], dev2[nd]))]_vars

\* a fit with alpha = 0, beta = 1 over three different deviations
C2_Witness ==
    /\ phase = "extrap" /\ pc[1] = "ret" /\ NetCount >= 3
    /\ alpha[1] = Zero /\ beta[1] = One
    /\ delectronDens_0dt[1] # delectronDens_1dt[1]
    /\ delectronDens[1] # delectronDens_0dt[1]
    /\ \A nd \in Nodes : IsDef(delectronDens[1][nd])

\* what the extrapolation branch stages for node i of member p
ExtrapolatedValue(p, i) == RAdd(electronDens_at(p)[i], delectronDens[p][i])

\* C3 as stated: after a call that consumes the extrapolated deviation,
\* every node of the total channel is >= xc_rhotol.
C3_FloorAfterExtrapolation ==
    \A p \in Members :
        (phase = "init" /\ pc[p] = "ret" /\ UsesExtrapolation)
        => \A i \in Nodes : RGe(electronDens[p][i], xc_rhotol)

\* C3 amended: the value staged before the scaling is xc_rhotol where
\* electronDens_at + delectronDens is negative and that sum otherwise, hence
\* >= 0; the final value is the staged one times PosCharge / int_rho, hence
\* >= 0 whenever the reduced integral is positive.
C3_ClampedThenScaled ==
    \A p \in Members :
        (phase = "init" /\ UsesExtrapolation) =>
            /\ pc[p] = "allreduce" =>
                \A i \in Nodes :
                    /\ RGe(electronDens[p][i], Zero)
                    /\ electronDens[p][i] =
                          (IF RLt(ExtrapolatedValue(p, i), Zero)
                           THEN xc_rhotol ELSE ExtrapolatedValue(p, i))
            /\ pc[p] = "ret" =>
                \A i \in Nodes :
                    /\ electronDens[p][i] =
                          RMul(IF RLt(ExtrapolatedValue(p, i), Zero)
                               THEN xc_rhotol ELSE ExtrapolatedValue(p, i),
                               RDiv(PosCharge, int_rho[p]))
                    /\ RLt(Zero, int_rho[p]) => RGe(electronDens[p][i], Zero)

\* a negative extrapolated value was replaced, and the call has returned
C3_Witness ==
    \E p \in Members : \E i \in Nodes :
        /\ phase = "init" /\ pc[p] = "ret" /\ UsesExtrapolation
        /\ RLt(ExtrapolatedValue(p, i), Zero)
        /\ RLt(Zero, int_rho[p])

\* C7: after the scaling branch of a spin-polarized run (finite total),
\* up + down = total and up - down = mag at every node.
C7_SpinChannels ==
    \A p \in Members :
        (phase = "init" /\ pc[p] = "ret" /\ NetCount # 0 /\ spin_typ # 0
            /\ int_rho[p] # Zero)
        => \A i \in Nodes :
              /\ REq(RAdd(electronDens[p][Nd_d + i],
                          electronDens[p][2 * Nd_d + i]),
                     electronDens[p][i])
              /\ REq(RSub(electronDens[p][Nd_d + i],
                          electronDens[p][2 * Nd_d + i]),
                     mag[p][i])

C7_Witness ==
    /\ phase = "init" /\ AllReturned /\ NetCount >= 3 /\ spin_typ = 2
    /\ \A i \in Nodes : /\ mag[1][i] # Zero
                        /\ IsFinite(electronDens[1][Nd_d + i])
                        /\ electronDens[1][Nd_d + i] # electronDens[1][i]

\* C8: every call of elecDensExtrapolation by a member, whatever the counters,
\* moves age-1 to age-2, age-0 to age-1 and stores electronDens -
\* electronDens_at as age-0; a call outside the group changes no history.
C8_RingShift ==
    [][\A p \in Procs :
        ExtrapolationStep(p) =>
            IF InPhi(p)
            THEN /\ delectronDens_2dt'[p] = delectronDens_1dt[p]
                 /\ delectronDens_1dt'[p] = delectronDens_0dt[p]
                 /\ \A nd \in Nodes :
                      delectronDens_0dt'[p][nd] =
                          RSub(electronDens[p][nd], electronDens_at(p)[nd])
            ELSE UNCHANGED <<delectronDens, delectronDens_0dt,
                             delectronDens_1dt, delectronDens_2dt,
                             atom_pos_nm, atom_pos_0dt, atom_pos_1dt,
                             atom_pos_2dt>>]_vars

\* three calls have filled the ring with three different deviations
C8_Witness ==
    /\ phase = "extrap" /\ AllReturned /\ MDCount >= 3
    /\ \A nd \in Nodes : /\ IsDef(delectronDens_2dt[1][nd])
                        /\ delectronDens_0dt[1][nd] # delectronDens_1dt[1][nd]
                        /\ delectronDens_1dt[1][nd] # delectronDens_2dt[1][nd]
    /\ delectronDens_0dt[0] = UndefVec(Nodes)

\* C9: in a round of Init_electronDensity a member has entered the reduction
\* once when it returns if elecgs_Count - StressCount != 0 and never if it is
\* 0; a process outside the group never enters it nor waits; no member
\* returns from a round in which another one waits in the reduction without
\* having joined it, and a reduction every member joined lets them go on.
C9_Collective ==
    /\ \A p \in Procs :
        /\ nreduce[p] <= 1
        /\ (phase = "init" /\ pc[p] = "ret") =>
              nreduce[p] = (IF InPhi(p) /\ NetCount # 0 THEN 1 ELSE 0)
        /\ pc[p] = "allreduce" => (InPhi(p) /\ p \in joined /\ NetCount # 0)
        /\ ~InPhi(p) => (nreduce[p] = 0 /\ p \notin joined)
    /\ (phase = "init" /\ joined # {}) =>
          /\ \A m \in Members : m \in joined \/ pc[m] = "call"
          /\ (\E p \in Procs : pc[p] = "call")
                \/ joined = Members
                \/ AllReturned

\* one member waits in the reduction for another that has not started, while
\* the process outside the group has already returned
C9_Witness ==
    /\ phase = "init" /\ NetCount # 0
    /\ pc[0] = "ret" /\ pc[1] = "allreduce" /\ pc[NMembers] = "call"

\* C10: (i) when a call of Init_electronDensity consumes delectronDens an
\* earlier extrapolation has assigned it; (ii) when elecDensExtrapolation
\* builds the fit, the position histories, atom_pos_nm and the deviation
\* histories it reads have all been assigned.
C10_HistoryAssigned ==
    \A p \in Members :
        /\ (phase = "init" /\ UsesExtrapolation) =>
              \A i \in Nodes : IsDef(delectronDens[p][i])
        /\ (phase = "extrap" /\ pc[p] = "call" /\ FitsHistory) =>
              /\ \A c \in Coords : /\ IsDef(atom_pos_0dt[p][c])
                                   /\ IsDef(atom_pos_1dt[p][c])
                                   /\ IsDef(atom_pos_2dt[p][c])
                                   /\ FirstEligible \/ IsDef(atom_pos_nm[p][c])
              /\ \A nd \in Nodes : /\ IsDef(delectronDens_0dt[p][nd])
                                   /\ IsDef(delectronDens_1dt[p][nd])
                                   /\ IsDef(electronDens[p][nd])
        /\ (phase = "extrap" /\ pc[p] = "ret" /\ FitsHistory) =>
              /\ IsDef(alpha[p]) /\ IsDef(beta[p])
              /\ \A nd \in Nodes : /\ IsDef(delectronDens[p][nd])
                                   /\ IsDef(delectronDens_2dt[p][nd])

\* a relaxation run with a stress solve has reached the fit
C10_Witness ==
    /\ phase = "extrap" /\ pc[1] = "ret" /\ FitsHistory
    /\ RelaxFlag = 1 /\ StressCount >= 1
    /\ IsDef(alpha[1]) /\ IsFinite(alpha[1])

(* ======================= properties of the orbitals ==================== *)
\* the orbital array the run uses
OrbArray(q) == IF isGammaPoint = 1 THEN Xorb[q] ELSE Xorb_kpt[q]

\* whether process q stores the coefficient of global k-point kg, band ng,
\* spinor sg and grid node g
Holds(q, kg, ng, sg, g) ==
    /\ InDmcomm(q)
    /\ kg - kpt_start_indx(q) \in 0 .. Nkpts_kptcomm(q) - 1
    /\ ng - band_start_indx(q) \in 0 .. Nband_bandcomm(q) - 1
    /\ sg - spinor_start_indx(q) \in 0 .. Nspinor_spincomm(q) - 1
    /\ g - DMVertices_dmcomm(q) \in 0 .. Nd_d_dmcomm(q) - 1

\* the value process q stores for that coefficient
Coeff(q, kg, ng, sg, g) ==
    OrbArray(q)[shift(q, kg - kpt_start_indx(q), ng - band_start_indx(q),
                      sg - spinor_start_indx(q))
                + (g - DMVertices_dmcomm(q))]

Filled(q) == InDmcomm(q) /\ nalloc[q] >= 1

GlobalCoeffs ==
    (0 .. Nkpts - 1) \X (0 .. Nstates - 1) \X (0 .. Nspinor - 1) \X (0 .. Nd - 1)

\* C4: with FixRandSeed = 1, a coefficient of the global problem has the same
\* value under the two partitionings, whichever processes store it.
C4_PartitionInvariant ==
    FixRandSeed = 1 =>
        \A q1 \in OrbProcsOf(1), q2 \in OrbProcsOf(2) :
            (Filled(q1) /\ Filled(q2)) =>
                \A c \in GlobalCoeffs :
                    (Holds(q1, c[1], c[2], c[3], c[4])
                        /\ Holds(q2, c[1], c[2], c[3], c[4]))
                    => Coeff(q1, c[1], c[2], c[3], c[4])
                         = Coeff(q2, c[1], c[2], c[3], c[4])

\* bands split in one run, the domain split in the other, all filled
C4_Witness ==
    /\ FixRandSeed = 1
    /\ part[1].npband = 2 /\ part[2].npdom = 2
    /\ \A q \in OrbProcsOf(1) \cup OrbProcsOf(2) : Filled(q)
    /\ \E q1 \in OrbProcsOf(1), q2 \in OrbProcsOf(2) :
          q1[2] = 1 /\ q2[5] = 1 /\ Holds(q1, 0, Nstates - 1, 1, Nd - 1)
              /\ Holds(q2, 0, Nstates - 1, 1, Nd - 1)

\* C5: a member of dmcomm has allocated its orbital arrays exactly once as
\* soon as its first call of Init_orbital has returned, and no later call
\* allocates again; before that call, and outside dmcomm, nothing is allocated.
C5_AllocatedOnce ==
    \A q \in OrbProcs :
        /\ nalloc[q] <= 1
        /\ ~InDmcomm(q) => nalloc[q] = 0
        /\ (InDmcomm(q) /\ step = 1 /\ opc[q] = "call") => nalloc[q] = 0
        /\ (InDmcomm(q) /\ (step > 1 \/ opc[q] = "ret")) => nalloc[q] = 1

\* a later structural step whose net solve count is still zero
C5_Witness ==
    /\ step >= 3 /\ elecgs_Count = StressCount
    /\ \A q \in OrbProcs : opc[q] = "ret"
    /\ \E q \in OrbProcs : InDmcomm(q) /\ nalloc[q] = 1

\* C6 as stated: after the fill, the coefficients of any two k-points agree
\* for every band, spinor and grid node.
C6_SamePatternAtAllKpoints ==
    \A r \in Runs : \A q1 \in OrbProcsOf(r), q2 \in OrbProcsOf(r) :
        (Filled(q1) /\ Filled(q2)) =>
            \A c \in GlobalCoeffs : \A k2 \in 0 .. Nkpts - 1 :
                (Holds(q1, c[1], c[2], c[3], c[4])
                    /\ Holds(q2, k2, c[2], c[3], c[4]))
                => Coeff(q1, c[1], c[2], c[3], c[4])
                     = Coeff(q2, k2, c[2], c[3], c[4])

====
